---- MODULE Spec2Model ----
(***************************************************************************)
(* ProShard simulation engine: Simulator.run (src/simulator.py) driving    *)
(* one of the four sharding protocols of src/protocols.py over the         *)
(* configuration of src/config.py.                                         *)
(*                                                                         *)
(* Numbers.  Python floats are modelled as exact rationals: a metric is a  *)
(* record [num, den]; an activity score is an integer scaled by ActScale   *)
(* (a power of EMA_DEN large enough for every EMA update of a run to be    *)
(* exact).  Floating-point rounding is not modelled.                       *)
(*                                                                         *)
(* Community detection (networkx) is not code of this repository.  It is   *)
(* modelled as a nondeterministic choice among the lists of node sets it   *)
(* can return: see LabelPropagationCommunities, GreedyModularityCommunities*)
(***************************************************************************)
EXTENDS Integers, Sequences, FiniteSets, TLC

(* ---------------- configuration (src/config.py), scaled ---------------- *)
NUM_ACCOUNTS == 2
NUM_EPOCHS == 3
EPOCH_DURATION_S == 300
TX_PER_EPOCH_BASELINE == 2
SPIKE_EPOCH == 2
SPIKE_TX_COUNT == 1
NFT_CLUSTER_SIZE == 1
\* first account id of the NFT cluster (1000 in config.py)
NFT_CLUSTER_START == 1
NFT_CLUSTER_ACCOUNTS == NFT_CLUSTER_START .. (NFT_CLUSTER_START + NFT_CLUSTER_SIZE - 1)
LATENCY_INTRA_SHARD == 2
LATENCY_CROSS_SHARD == 10
\* PAG_WEIGHTS, in tenths
PAG_HISTORICAL == 2
PAG_PREDICTIVE == 5
PAG_SEMANTIC == 3
\* EMA_ALPHA = EMA_ALPHA_NUM / EMA_DEN
EMA_ALPHA_NUM == 3
EMA_DEN == 10
PREDICTION_ACTIVITY_THRESHOLD == 1

\* largest num_shards a protocol is constructed with (main.py: 4, 16, 32, 64)
MaxShards == 2

Protocols == {"Static", "CLPA", "DBSRP-ML", "ProShard"}

RECURSIVE Pow(_, _)
Pow(b, n) == IF n = 0 THEN 1 ELSE b * Pow(b, n - 1)
\* activity scores are stored multiplied by ActScale
ActScale == Pow(EMA_DEN, NUM_EPOCHS)

(* ------------------------- Python dictionaries ------------------------- *)
\* what dict.get(key) returns for a missing key
None == -1
EmptyDict == [x \in {} |-> 0]
\* d.get(k): None when k is no key of d
Get(d, k) == IF k \in DOMAIN d THEN d[k] ELSE None
\* d.get(k, dflt)
GetOr(d, k, dflt) == IF k \in DOMAIN d THEN d[k] ELSE dflt
\* d[k] = v
Put(d, k, v) == [x \in (DOMAIN d) \cup {k} |-> IF x = k THEN v ELSE d[x]]
\* d[k] += n on a defaultdict(int)
Incr(d, k, n) == Put(d, k, GetOr(d, k, 0) + n)

Max(S) == CHOOSE x \in S : \A y \in S : y <= x
Min(S) == CHOOSE x \in S : \A y \in S : x <= y
Values(d) == {d[k] : k \in DOMAIN d}

\* rationals as [num, den], den > 0
Rat(n, d) == [num |-> n, den |-> d]
RatEq(a, b) == a.num * b.den = b.num * a.den
RatLeq(a, b) == a.num * b.den <= b.num * a.den

(* ------------------------------ graphs --------------------------------- *)
\* an nx.Graph: a dictionary from edges {u, v} (a self-loop is {u}) to weights
Nodes(G) == UNION (DOMAIN G)
HasEdge(G, u, v) == {u, v} \in DOMAIN G
Isolated(G, u) == \A v \in Nodes(G) : HasEdge(G, u, v) => v = u

RECURSIVE Reach(_, _, _)
Reach(G, B, S) ==
    LET S2 == S \cup {v \in B : \E u \in S : HasEdge(G, u, v)}
    IN  IF S2 = S THEN S ELSE Reach(G, B, S2)
\* B induces a connected subgraph of G
Connected(G, B) == \E u \in B : Reach(G, B, {u}) = B

\* every list of disjoint non-empty sets that covers N
OrderedPartitions(N) ==
    UNION { { [i \in 1..k |-> {n \in N : f[n] = i}] :
                f \in {g \in [N -> 1..k] : \A i \in 1..k : \E n \in N : g[n] = i} } :
            k \in 0..Cardinality(N) }

\* a node that has a neighbour never ends alone in its community
NoLonelyNode(G, c) ==
    \A i \in 1..Len(c) : \A u \in c[i] : c[i] = {u} => Isolated(G, u)

\* nx.community.label_propagation_communities(G): communities are connected,
\* cover the nodes, and on termination every node carries a label that one
\* of its neighbours carries; their number and order are not controlled.
LabelPropagationCommunities(G) ==
    {c \in OrderedPartitions(Nodes(G)) :
        /\ \A i \in 1..Len(c) : Connected(G, c[i])
        /\ NoLonelyNode(G, c)}

\* nx.community.greedy_modularity_communities(G, n_communities=n): starts
\* from singletons and merges communities joined by an edge until n are left
\* or no merge raises modularity (a node with a neighbour always has a merge
\* that does); the result is sorted by size, largest first.
GreedyModularityCommunities(G, n) ==
    {c \in OrderedPartitions(Nodes(G)) :
        /\ \A i \in 1..Len(c) : Connected(G, c[i])
        /\ \A i \in 1..(Len(c) - 1) : Cardinality(c[i]) >= Cardinality(c[i + 1])
        /\ Len(c) > n => NoLonelyNode(G, c)}

(* ------------------------------- state --------------------------------- *)
VARIABLES
    protocol,             \* which ShardingProtocol the Simulator was given
    num_shards,           \* protocol.num_shards = Simulator.num_shards
    num_accounts,         \* protocol.num_accounts = Simulator.num_accounts
    spike_epoch,          \* config.SPIKE_EPOCH of this run (-1: spike disabled)
    static_partition,     \* StaticProtocol.partition
    historical_activity,  \* ProShardProtocol.historical_activity (scaled)
    predicted_activity,   \* ProShardProtocol.predicted_activity (scaled)
    partition,            \* Simulator.partition
    workload_history,     \* Simulator.workload_history
    results,              \* Simulator.results
    epoch,                \* loop variable of Simulator.run
    transactions,         \* local of Simulator.run
    old_partition,        \* local of Simulator.run
    reconfig_cost,        \* local of Simulator.run
    pc                    \* position in Simulator.run

vars == <<protocol, num_shards, num_accounts, spike_epoch, static_partition,
          historical_activity, predicted_activity, partition, workload_history,
          results, epoch, transactions, old_partition, reconfig_cost, pc>>

\* range(num_accounts)
Accounts == 0 .. (num_accounts - 1)

(* ------------------------ src/protocols.py ----------------------------- *)
RECURSIVE CreatePartitionLoop(_, _, _)
CreatePartitionLoop(communities, i, part) ==
    IF i > Len(communities) THEN part
    ELSE CreatePartitionLoop(communities, i + 1,
            [a \in (DOMAIN part) \cup communities[i] |->
                IF a \in communities[i] THEN i - 1 ELSE part[a]])

\* ShardingProtocol._create_partition_from_communities: shard_id is the
\* position of the community in the list, counted from 0
CreatePartitionFromCommunities(communities) ==
    CreatePartitionLoop(communities, 1, EmptyDict)

\* StaticProtocol.__init__: {i: i % num_shards for i in range(num_accounts)}
StaticProtocolInit(shards) == [i \in Accounts |-> i % shards]

\* a reconfigure that hands back the partition it was given
StaticReconfigureEcho(current_partition, history, e) == {current_partition}

\* StaticProtocol.reconfigure
StaticReconfigure(current_partition, history, e) == {static_partition}

\* reads the batch of the epoch being decided instead of the one before it
LastEpochTxsCurrent(history, e) == GetOr(history, e, <<>>)

\* workload_history.get(e - 1, [])
LastEpochTxs(history, e) == GetOr(history, e - 1, <<>>)

RECURSIVE BuildGraphLoopNoCount(_, _, _)
\* a graph that records which pairs transacted but not how often
BuildGraphLoopNoCount(txs, i, G) ==
    IF i > Len(txs) THEN G
    ELSE BuildGraphLoopNoCount(txs, i + 1, Put(G, {txs[i][1], txs[i][2]}, 1))

RECURSIVE BuildGraphLoop(_, _, _)
BuildGraphLoop(txs, i, G) ==
    IF i > Len(txs) THEN G
    ELSE LET src == txs[i][1]
             dst == txs[i][2]
         IN  BuildGraphLoop(txs, i + 1,
                IF HasEdge(G, src, dst)
                THEN [G EXCEPT ![{src, dst}] = @ + 1]
                ELSE Put(G, {src, dst}, 1))

\* ReactiveProtocol._build_graph_from_history
BuildGraphFromHistory(history, e) ==
    IF e = 0 \/ DOMAIN history = {} THEN EmptyDict
    ELSE BuildGraphLoop(LastEpochTxs(history, e), 1, EmptyDict)

\* CLPA without the early return on a graph without nodes
CLPAReconfigureUnguarded(current_partition, history, e) ==
    {CreatePartitionFromCommunities(c) :
        c \in LabelPropagationCommunities(BuildGraphFromHistory(history, e))}

\* CLPAProtocol.reconfigure
CLPAReconfigure(current_partition, history, e) ==
    LET G == BuildGraphFromHistory(history, e)
    IN  IF Nodes(G) = {} THEN {current_partition}
        ELSE {CreatePartitionFromCommunities(c) : c \in LabelPropagationCommunities(G)}

\* DBSRPMLProtocol.reconfigure
DBSRPMLReconfigure(current_partition, history, e) ==
    LET G == BuildGraphFromHistory(history, e)
    IN  IF Nodes(G) = {} THEN {current_partition}
        ELSE {CreatePartitionFromCommunities(c) :
                c \in GreedyModularityCommunities(G, num_shards)}

RECURSIVE ActivityLoop(_, _, _)
\* last_epoch_activity[src] += 1; last_epoch_activity[dst] += 1
ActivityLoop(txs, i, act) ==
    IF i > Len(txs) THEN act
    ELSE ActivityLoop(txs, i + 1, Incr(Incr(act, txs[i][1], 1), txs[i][2], 1))

\* the EMA update of one account, on scaled scores
EmaUpdate(activity, old) ==
    (EMA_ALPHA_NUM * activity * ActScale + (EMA_DEN - EMA_ALPHA_NUM) * old) \div EMA_DEN

\* an update that also decays the accounts without activity in the last epoch
UpdateHistoricalDecayAll(hist, history, e) ==
    IF e > 0
    THEN LET act == ActivityLoop(LastEpochTxs(history, e), 1, EmptyDict)
         IN  [a \in (DOMAIN hist) \cup (DOMAIN act) |->
                EmaUpdate(GetOr(act, a, 0), GetOr(hist, a, 0))]
    ELSE hist

\* ProShardProtocol._predict, step 1: the new historical_activity
UpdateHistorical(hist, history, e) ==
    IF e > 0
    THEN LET act == ActivityLoop(LastEpochTxs(history, e), 1, EmptyDict)
         IN  [a \in (DOMAIN hist) \cup (DOMAIN act) |->
                IF a \in DOMAIN act
                THEN EmaUpdate(act[a], GetOr(hist, a, 0))
                ELSE hist[a]]
    ELSE hist

\* ProShardProtocol._predict, step 2: predicted_activity rebuilt
BaselinePrediction(hist) ==
    LET high == {a \in DOMAIN hist : hist[a] > PREDICTION_ACTIVITY_THRESHOLD * ActScale}
    IN  [a \in high |-> hist[a]]

\* an oracle that overwrites the forecast instead of adding to it
OracleInjectionOverwrite(pred, e) ==
    IF e = spike_epoch - 1
    THEN LET spike_prediction_value == (SPIKE_TX_COUNT * ActScale) \div NFT_CLUSTER_SIZE
         IN  [a \in (DOMAIN pred) \cup NFT_CLUSTER_ACCOUNTS |->
                IF a \in NFT_CLUSTER_ACCOUNTS THEN spike_prediction_value ELSE pred[a]]
    ELSE pred

\* ProShardProtocol._predict, step 3: the oracle
OracleInjection(pred, e) ==
    IF e = spike_epoch - 1
    THEN LET spike_prediction_value == (SPIKE_TX_COUNT * ActScale) \div NFT_CLUSTER_SIZE
         IN  [a \in (DOMAIN pred) \cup NFT_CLUSTER_ACCOUNTS |->
                IF a \in NFT_CLUSTER_ACCOUNTS
                THEN GetOr(pred, a, 0) + spike_prediction_value
                ELSE pred[a]]
    ELSE pred

\* a _predict that does not clear predicted_activity before refilling it
PredictNoClear(history, e) ==
    LET hist == UpdateHistorical(historical_activity, history, e)
        base == BaselinePrediction(hist)
        kept == [a \in (DOMAIN predicted_activity) \cup (DOMAIN base) |->
                    IF a \in DOMAIN base THEN base[a] ELSE predicted_activity[a]]
    IN  [historical_activity |-> hist,
         predicted_activity  |-> OracleInjection(kept, e)]

\* ProShardProtocol._predict: the two forecast maps it leaves behind
Predict(history, e) ==
    LET hist == UpdateHistorical(historical_activity, history, e)
    IN  [historical_activity |-> hist,
         predicted_activity  |-> OracleInjection(BaselinePrediction(hist), e)]

RECURSIVE HistoricalWeightsLoop(_, _, _)
\* historical_weights[(min(src,dst), max(src,dst))] += 1
HistoricalWeightsLoop(txs, i, w) ==
    IF i > Len(txs) THEN w
    ELSE LET src == txs[i][1]
             dst == txs[i][2]
             lo  == IF src <= dst THEN src ELSE dst
             hi  == IF src <= dst THEN dst ELSE src
         IN  HistoricalWeightsLoop(txs, i + 1, Incr(w, <<lo, hi>>, 1))

\* a PAG weight without the historical component
PagWeightNoHistorical(historical_weights, pred, u, v) ==
    LET p_score == GetOr(pred, u, 0) * GetOr(pred, v, 0)
        s_score == IF u \in NFT_CLUSTER_ACCOUNTS /\ v \in NFT_CLUSTER_ACCOUNTS THEN 1 ELSE 0
        max_p   == IF DOMAIN pred # {} THEN Max(Values(pred)) * Max(Values(pred)) ELSE 1
    IN  Rat(PAG_PREDICTIVE * p_score + PAG_SEMANTIC * s_score * max_p, 10 * max_p)

\* the PAG weight of edge (u, v) as a rational
PagWeight(historical_weights, pred, u, v) ==
    LET h_score == GetOr(historical_weights, <<u, v>>, 0)
        p_score == GetOr(pred, u, 0) * GetOr(pred, v, 0)
        s_score == IF u \in NFT_CLUSTER_ACCOUNTS /\ v \in NFT_CLUSTER_ACCOUNTS THEN 1 ELSE 0
        max_h   == IF DOMAIN historical_weights # {} THEN Max(Values(historical_weights)) ELSE 1
        max_p   == IF DOMAIN pred # {} THEN Max(Values(pred)) * Max(Values(pred)) ELSE 1
    IN  Rat(PAG_HISTORICAL * h_score * max_p + PAG_PREDICTIVE * p_score * max_h
              + PAG_SEMANTIC * s_score * max_h * max_p,
            10 * max_h * max_p)

\* ProShardProtocol._build_predictive_affinity_graph
BuildPredictiveAffinityGraph(history, e, pred) ==
    LET historical_weights ==
            IF e > 0 THEN HistoricalWeightsLoop(LastEpochTxs(history, e), 1, EmptyDict)
            ELSE EmptyDict
        all_edges == DOMAIN historical_weights
        kept == {p \in all_edges : PagWeight(historical_weights, pred, p[1], p[2]).num > 0}
    IN  [ed \in {{p[1], p[2]} : p \in kept} |->
            LET p == CHOOSE q \in kept : {q[1], q[2]} = ed
            IN  PagWeight(historical_weights, pred, p[1], p[2])]

\* ProShardProtocol.reconfigure: the partitions it can return
ProShardReconfigure(current_partition, history, e) ==
    LET G == BuildPredictiveAffinityGraph(history, e, Predict(history, e).predicted_activity)
    IN  IF Nodes(G) = {} THEN {current_partition}
        ELSE {CreatePartitionFromCommunities(c) :
                c \in GreedyModularityCommunities(G, num_shards)}

(* ------------------------ src/simulator.py ----------------------------- *)
\* Simulator.__init__: {i: i % num_shards for i in range(num_accounts)}
InitialPartition(shards) == [i \in Accounts |-> i % shards]

\* Simulator._generate_workload: the transaction lists it can return.
\* Baseline endpoints are Zipf samples reduced modulo num_accounts; a spike
\* transaction goes from any account to an account of the NFT cluster.
GenerateWorkload(e) ==
    LET baseline == [1..TX_PER_EPOCH_BASELINE -> Accounts \X Accounts]
        spike    == IF e = spike_epoch
                    THEN [1..SPIKE_TX_COUNT -> Accounts \X NFT_CLUSTER_ACCOUNTS]
                    ELSE {<<>>}
    IN  {b \o s : b \in baseline, s \in spike}

\* the comparison inverted
IsCrossShardInverted(src_shard, dst_shard) == src_shard = dst_shard

\* if src_shard != dst_shard
IsCrossShard(src_shard, dst_shard) == src_shard # dst_shard

\* the division without its guard: a zero denominator is Python's ZeroDivisionError
AvgLatencyUnguarded(total_latency, num_txs) == Rat(total_latency, num_txs)

\* avg_latency = total_latency / num_txs if num_txs > 0 else 0
AvgLatency(total_latency, num_txs) ==
    IF num_txs > 0 THEN Rat(total_latency, num_txs) ELSE Rat(0, 1)

\* cst_ratio = (num_cst / num_txs) * 100 if num_txs > 0 else 0
CstRatio(num_cst, num_txs) ==
    IF num_txs > 0 THEN Rat(num_cst * 100, num_txs) ELSE Rat(0, 1)

\* loads = [v for v in shard_load.values() if v > 0]
\* imbalance = max(loads) / min(loads) if len(loads) > 1 else 1.0
Imbalance(shard_load) ==
    LET loads == {k \in DOMAIN shard_load : shard_load[k] > 0}
    IN  IF Cardinality(loads) > 1
        THEN Rat(Max({shard_load[k] : k \in loads}), Min({shard_load[k] : k \in loads}))
        ELSE Rat(1, 1)

RECURSIVE ProcessLoop(_, _, _, _)
\* the loop of Simulator._process_transactions over the batch
ProcessLoop(txs, i, current_partition, acc) ==
    IF i > Len(txs) THEN acc
    ELSE LET src_shard == Get(current_partition, txs[i][1])
             dst_shard == Get(current_partition, txs[i][2])
             load      == Incr(Incr(acc.shard_load, src_shard, 1), dst_shard, 1)
         IN  ProcessLoop(txs, i + 1, current_partition,
                IF IsCrossShard(src_shard, dst_shard)
                THEN [num_cst       |-> acc.num_cst + 1,
                      total_latency |-> acc.total_latency + LATENCY_CROSS_SHARD,
                      shard_load    |-> load]
                ELSE [num_cst       |-> acc.num_cst,
                      total_latency |-> acc.total_latency + LATENCY_INTRA_SHARD,
                      shard_load    |-> load])

\* Simulator._process_transactions
ProcessTransactions(txs, current_partition) ==
    LET acc     == ProcessLoop(txs, 1, current_partition,
                       [num_cst |-> 0, total_latency |-> 0, shard_load |-> EmptyDict])
        num_txs == Len(txs)
    IN  [throughput  |-> Rat(num_txs, EPOCH_DURATION_S),
         avg_latency |-> AvgLatency(acc.total_latency, num_txs),
         cst_ratio   |-> CstRatio(acc.num_cst, num_txs),
         imbalance   |-> Imbalance(acc.shard_load),
         num_cst     |-> acc.num_cst]

\* Simulator.run, step 3: moved_accounts
MovedAccounts(old, new) == Cardinality({a \in DOMAIN old : Get(new, a) # old[a]})

\* the percentage taken over the size of the new partition
ReconfigCostOverNew(old, new) == Rat(MovedAccounts(old, new) * 100, Cardinality(DOMAIN new))

\* Simulator.run, step 3: reconfig_cost = (moved_accounts / num_accounts) * 100
ReconfigCost(old, new) == Rat(MovedAccounts(old, new) * 100, num_accounts)

\* a record numbered from 1 instead of from 0
EpochRecordOneBased(m, e, cost) ==
    [throughput |-> m.throughput, avg_latency |-> m.avg_latency,
     cst_ratio |-> m.cst_ratio, imbalance |-> m.imbalance, num_cst |-> m.num_cst,
     epoch |-> e + 1, reconfig_cost |-> cost]

\* the record Simulator.run appends: the metrics plus epoch and reconfig_cost
EpochRecord(m, e, cost) ==
    [throughput |-> m.throughput, avg_latency |-> m.avg_latency,
     cst_ratio |-> m.cst_ratio, imbalance |-> m.imbalance, num_cst |-> m.num_cst,
     epoch |-> e, reconfig_cost |-> cost]

\* a Simulator constructed over a freshly constructed protocol, run() entered;
\* main.py constructs every protocol with num_accounts = config.NUM_ACCOUNTS
Init ==
    /\ protocol \in Protocols
    /\ num_shards \in 1..MaxShards
    /\ num_accounts = NUM_ACCOUNTS
    /\ spike_epoch \in {-1, SPIKE_EPOCH}
    /\ static_partition = IF protocol = "Static" THEN StaticProtocolInit(num_shards) ELSE EmptyDict
    /\ historical_activity = EmptyDict
    /\ predicted_activity = EmptyDict
    /\ partition = InitialPartition(num_shards)
    /\ workload_history = EmptyDict
    /\ results = <<>>
    /\ epoch = 0
    /\ transactions = <<>>
    /\ old_partition = EmptyDict
    /\ reconfig_cost = Rat(0, 1)
    /\ pc = "generate"

config == <<protocol, num_shards, num_accounts, spike_epoch, static_partition>>
forecast == <<historical_activity, predicted_activity>>

\* a history that keeps the newest epoch only
GenerateKeepLatest ==
    /\ pc = "generate"
    /\ epoch < NUM_EPOCHS
    /\ \E txs \in GenerateWorkload(epoch) :
          /\ transactions' = txs
          /\ workload_history' = Put(EmptyDict, epoch, txs)
    /\ pc' = "reconfigure"
    /\ UNCHANGED <<config, forecast, partition, results, epoch, old_partition, reconfig_cost>>

\* run, step 1: generate this epoch's workload and log it
Generate ==
    /\ pc = "generate"
    /\ epoch < NUM_EPOCHS
    /\ \E txs \in GenerateWorkload(epoch) :
          /\ transactions' = txs
          /\ workload_history' = Put(workload_history, epoch, txs)
    /\ pc' = "reconfigure"
    /\ UNCHANGED <<config, forecast, partition, results, epoch, old_partition, reconfig_cost>>

\* run, step 2 under StaticProtocol
ReconfigureStatic ==
    /\ pc = "reconfigure"
    /\ protocol = "Static"
    /\ old_partition' = partition
    /\ partition' \in StaticReconfigure(partition, workload_history, epoch)
    /\ pc' = "cost"
    /\ UNCHANGED <<config, forecast, workload_history, results, epoch, transactions, reconfig_cost>>

\* run, step 2 under CLPAProtocol
ReconfigureCLPA ==
    /\ pc = "reconfigure"
    /\ protocol = "CLPA"
    /\ old_partition' = partition
    /\ partition' \in CLPAReconfigure(partition, workload_history, epoch)
    /\ pc' = "cost"
    /\ UNCHANGED <<config, forecast, workload_history, results, epoch, transactions, reconfig_cost>>

\* run, step 2 under DBSRPMLProtocol
ReconfigureDBSRPML ==
    /\ pc = "reconfigure"
    /\ protocol = "DBSRP-ML"
    /\ old_partition' = partition
    /\ partition' \in DBSRPMLReconfigure(partition, workload_history, epoch)
    /\ pc' = "cost"
    /\ UNCHANGED <<config, forecast, workload_history, results, epoch, transactions, reconfig_cost>>

\* run, step 2 under ProShardProtocol
ReconfigureProShard ==
    /\ pc = "reconfigure"
    /\ protocol = "ProShard"
    /\ old_partition' = partition
    /\ historical_activity' = Predict(workload_history, epoch).historical_activity
    /\ predicted_activity' = Predict(workload_history, epoch).predicted_activity
    /\ partition' \in ProShardReconfigure(partition, workload_history, epoch)
    /\ pc' = "cost"
    /\ UNCHANGED <<config, workload_history, results, epoch, transactions, reconfig_cost>>

\* run, step 3: reconfiguration cost
ComputeReconfigCost ==
    /\ pc = "cost"
    /\ reconfig_cost' = ReconfigCost(old_partition, partition)
    /\ pc' = "process"
    /\ UNCHANGED <<config, forecast, partition, workload_history, results, epoch,
                   transactions, old_partition>>

\* processing against the partition the epoch started with
ProcessAgainstOld ==
    /\ pc = "process"
    /\ results' = Append(results,
                     EpochRecord(ProcessTransactions(transactions, old_partition), epoch, reconfig_cost))
    /\ epoch' = epoch + 1
    /\ pc' = "generate"
    /\ UNCHANGED <<config, forecast, partition, workload_history, transactions,
                   old_partition, reconfig_cost>>

\* run, step 4: process against the new partition, record, next epoch
Process ==
    /\ pc = "process"
    /\ results' = Append(results,
                     EpochRecord(ProcessTransactions(transactions, partition), epoch, reconfig_cost))
    /\ epoch' = epoch + 1
    /\ pc' = "generate"
    /\ UNCHANGED <<config, forecast, partition, workload_history, transactions,
                   old_partition, reconfig_cost>>

\* run: the loop is over, the results are returned
Return ==
    /\ pc = "generate"
    /\ epoch = NUM_EPOCHS
    /\ pc' = "returned"
    /\ UNCHANGED <<config, forecast, partition, workload_history, results, epoch,
                   transactions, old_partition, reconfig_cost>>

Next ==
    \/ Generate
    \/ ReconfigureStatic
    \/ ReconfigureCLPA
    \/ ReconfigureDBSRPML
    \/ ReconfigureProShard
    \/ ComputeReconfigCost
    \/ Process
    \/ Return

Spec == Init /\ [][Next]_vars

(* -------- _process_transactions as a function of its arguments --------- *)
\* longest batch handed to the metrics engine
MaxBatch == 2

Batches == UNION {[1..n -> Accounts \X Accounts] : n \in 0..MaxBatch}
Partitions == UNION {[D -> 0..(MaxShards - 1)] : D \in SUBSET Accounts}

InitMetrics ==
    /\ protocol = "Static"
    /\ num_shards = MaxShards
    /\ num_accounts = NUM_ACCOUNTS
    /\ spike_epoch = -1
    /\ static_partition = EmptyDict
    /\ historical_activity = EmptyDict
    /\ predicted_activity = EmptyDict
    /\ partition \in Partitions
    /\ workload_history = EmptyDict
    /\ results = <<>>
    /\ epoch = 0
    /\ transactions \in Batches
    /\ old_partition = EmptyDict
    /\ reconfig_cost = Rat(0, 1)
    /\ pc = "metrics"

\* one call _process_transactions(transactions, partition)
MetricsCall ==
    /\ pc = "metrics"
    /\ results' = <<ProcessTransactions(transactions, partition)>>
    /\ pc' = "metrics_done"
    /\ UNCHANGED <<config, forecast, partition, workload_history, epoch, transactions,
                   old_partition, reconfig_cost>>

NextMetrics == MetricsCall

SpecMetrics == InitMetrics /\ [][NextMetrics]_vars

(* ------- one reconfigure call and its cost, from any arguments --------- *)
InitReconfigure ==
    /\ protocol \in Protocols
    /\ num_shards \in 1..MaxShards
    /\ num_accounts = NUM_ACCOUNTS
    /\ spike_epoch = -1
    /\ static_partition = IF protocol = "Static" THEN StaticProtocolInit(num_shards) ELSE EmptyDict
    /\ historical_activity = EmptyDict
    /\ predicted_activity = EmptyDict
    /\ partition \in Partitions
    /\ epoch \in 0..1
    /\ workload_history \in [0..epoch -> Batches]
    /\ results = <<>>
    /\ transactions = workload_history[epoch]
    /\ old_partition = EmptyDict
    /\ reconfig_cost = Rat(0, 1)
    /\ pc = "reconfigure"

NextReconfigure ==
    \/ ReconfigureStatic
    \/ ReconfigureCLPA
    \/ ReconfigureDBSRPML
    \/ ReconfigureProShard
    \/ ComputeReconfigCost

SpecReconfigure == InitReconfigure /\ [][NextReconfigure]_vars

(* -------- _predict called epoch after epoch, on any workload ----------- *)
\* transactions per epoch in the histories _predict is handed
ForecastTx == 8

\* the histories _predict can be handed at epoch e; it reads entry e - 1 only
ForecastHistories(e) ==
    IF e = 0 THEN {EmptyDict}
    ELSE {Put(EmptyDict, e - 1, txs) : txs \in [1..ForecastTx -> Accounts \X Accounts]}

\* a fresh ProShardProtocol, called for the epochs 0 .. NUM_EPOCHS-1 of a run
\* whose spike epoch is the one after them
InitForecast ==
    /\ protocol = "ProShard"
    /\ num_shards = MaxShards
    /\ num_accounts = NUM_ACCOUNTS
    /\ spike_epoch = NUM_EPOCHS
    /\ static_partition = EmptyDict
    /\ historical_activity = EmptyDict
    /\ predicted_activity = EmptyDict
    /\ partition = InitialPartition(num_shards)
    /\ workload_history = EmptyDict
    /\ results = <<>>
    /\ epoch = 0
    /\ transactions = <<>>
    /\ old_partition = EmptyDict
    /\ reconfig_cost = Rat(0, 1)
    /\ pc = "predict"

\* one call self._predict(workload_history, epoch), then the next epoch
PredictCall ==
    /\ pc = "predict"
    /\ epoch < NUM_EPOCHS
    /\ \E history \in ForecastHistories(epoch) :
          LET predicted == Predict(history, epoch)
          IN  /\ historical_activity' = predicted.historical_activity
              /\ predicted_activity' = predicted.predicted_activity
    /\ epoch' = epoch + 1
    /\ UNCHANGED <<config, partition, workload_history, results, transactions,
                   old_partition, reconfig_cost, pc>>

NextForecast == PredictCall

SpecForecast == InitForecast /\ [][NextForecast]_vars

(* ---- _generate_workload as a function of num_accounts and the epoch --- *)
\* a Simulator over a protocol constructed with any num_accounts up to
\* NUM_ACCOUNTS, about to generate the workload of any epoch
InitWorkload ==
    /\ protocol \in Protocols
    /\ num_shards = MaxShards
    /\ num_accounts \in 1..NUM_ACCOUNTS
    /\ spike_epoch \in {-1, SPIKE_EPOCH}
    /\ static_partition = IF protocol = "Static" THEN StaticProtocolInit(num_shards) ELSE EmptyDict
    /\ historical_activity = EmptyDict
    /\ predicted_activity = EmptyDict
    /\ partition = InitialPartition(num_shards)
    /\ workload_history = EmptyDict
    /\ results = <<>>
    /\ epoch \in 0..(NUM_EPOCHS - 1)
    /\ transactions = <<>>
    /\ old_partition = EmptyDict
    /\ reconfig_cost = Rat(0, 1)
    /\ pc = "workload"

\* one call transactions = self._generate_workload(epoch)
WorkloadCall ==
    /\ pc = "workload"
    /\ transactions' \in GenerateWorkload(epoch)
    /\ pc' = "workload_done"
    /\ UNCHANGED <<config, forecast, partition, workload_history, results, epoch,
                   old_partition, reconfig_cost>>

NextWorkload == WorkloadCall

SpecWorkload == InitWorkload /\ [][NextWorkload]_vars

(* ============================== claims ================================= *)
\* the epoch whose record was appended last has just been processed: its
\* batch is still in transactions and partition is the one it ran against
Recorded == pc \in {"generate", "returned"} /\ results # <<>>
LastRecord == results[Len(results)]
Endpoints(txs) == {txs[i][1] : i \in 1..Len(txs)} \cup {txs[i][2] : i \in 1..Len(txs)}

\* C1: under every protocol and after every epoch the Simulator's partition
\* has an entry for every account id in [0, num_accounts), also for accounts
\* without a transaction in the preceding epoch.
C1_PartitionTotal == Accounts \subseteq DOMAIN partition

\* C2: under every protocol and after every epoch every shard id stored in
\* the partition lies in [0, num_shards), whatever number of communities the
\* detection step returned.
C2_ShardIdsInRange == \A a \in DOMAIN partition : partition[a] \in 0..(num_shards - 1)

\* C3: under Static the Simulator's partition always equals
\* {i: i mod num_shards} (so it never differs from the initial partition), and
\* StaticProtocol.reconfigure returns that map for any arguments.
C3_StaticConstant ==
    protocol = "Static" =>
        /\ partition = [i \in Accounts |-> i % num_shards]
        /\ \A cp \in Partitions : \A e \in 0..NUM_EPOCHS :
              StaticReconfigure(cp, workload_history, e) = {[i \in Accounts |-> i % num_shards]}

\* C3 witness: a Static run that reconfigured in every epoch and returned
C3_Witness == protocol = "Static" /\ pc = "returned" /\ Len(results) = NUM_EPOCHS /\ num_shards > 1

\* what reconfigure at the current epoch can return, and the forecast maps
\* it leaves, when it is handed the given history
ReconfigureOutcome(history) ==
    [partitions |->
        CASE protocol = "Static"   -> StaticReconfigure(partition, history, epoch)
          [] protocol = "CLPA"     -> CLPAReconfigure(partition, history, epoch)
          [] protocol = "DBSRP-ML" -> DBSRPMLReconfigure(partition, history, epoch)
          [] protocol = "ProShard" -> ProShardReconfigure(partition, history, epoch),
     forecast |->
        IF protocol = "ProShard" THEN Predict(history, epoch)
        ELSE [historical_activity |-> historical_activity,
              predicted_activity  |-> predicted_activity]]

\* C4: no look-ahead.  When reconfigure is called at epoch e the history
\* already holds the batch of epoch e; replacing that batch by any other batch
\* the generator could have produced changes neither the partitions
\* reconfigure can return nor the forecast maps it leaves.
C4_NoLookAhead ==
    pc = "reconfigure" =>
        LET actual == ReconfigureOutcome(workload_history)
        IN  \A alt \in GenerateWorkload(epoch) :
                ReconfigureOutcome(Put(workload_history, epoch, alt)) = actual

\* C4 witness: ProShard decides an epoch whose batch differs from the batch of
\* the epoch before, on which it builds a non-empty graph
C4_Witness ==
    /\ pc = "reconfigure"
    /\ protocol = "ProShard"
    /\ epoch >= 1
    /\ workload_history[epoch - 1] # <<>>
    /\ Endpoints(transactions) # Endpoints(workload_history[epoch - 1])

LoadedShards == {partition[a] : a \in Endpoints(transactions) \cap DOMAIN partition}

\* C6: the imbalance of every record is >= 1, and is exactly 1 whenever at
\* most one shard carries load.
C6_ImbalanceAtLeastOne ==
    Recorded =>
        /\ RatLeq(Rat(1, 1), LastRecord.imbalance)
        /\ Cardinality(LoadedShards) <= 1 => RatEq(LastRecord.imbalance, Rat(1, 1))

\* number of transactions of the last batch whose endpoints are on different shards
CrossCount ==
    Cardinality({i \in 1..Len(transactions) :
                    partition[transactions[i][1]] # partition[transactions[i][2]]})

\* C7: for a non-empty batch whose endpoints are all keys of the partition,
\* num_cst counts the transactions with endpoints on different shards,
\* cst_ratio = 100 * num_cst / n, avg_latency = (num_cst * LATENCY_CROSS_SHARD
\* + (n - num_cst) * LATENCY_INTRA_SHARD) / n, throughput = n / EPOCH_DURATION_S;
\* no crossing gives ratio 0 and the intra latency, all crossing gives ratio
\* 100 and the cross latency.
C7_MetricsOfCoveredBatch ==
    (Recorded /\ transactions # <<>> /\ Endpoints(transactions) \subseteq DOMAIN partition) =>
        LET n == Len(transactions)
            k == CrossCount
            r == LastRecord
        IN  /\ r.num_cst = k
            /\ RatEq(r.cst_ratio, Rat(100 * k, n))
            /\ RatEq(r.avg_latency,
                     Rat(k * LATENCY_CROSS_SHARD + (n - k) * LATENCY_INTRA_SHARD, n))
            /\ RatEq(r.throughput, Rat(n, EPOCH_DURATION_S))
            /\ k = 0 => /\ r.cst_ratio.num = 0
                        /\ RatEq(r.avg_latency, Rat(LATENCY_INTRA_SHARD, 1))
            /\ k = n => /\ RatEq(r.cst_ratio, Rat(100, 1))
                        /\ RatEq(r.avg_latency, Rat(LATENCY_CROSS_SHARD, 1))

\* C7 witness: a recorded batch, fully covered, with crossing and non-crossing
\* transactions
C7_Witness ==
    /\ Recorded
    /\ Endpoints(transactions) \subseteq DOMAIN partition
    /\ CrossCount > 0
    /\ CrossCount < Len(transactions)

\* C8: a record exists for an epoch only if every endpoint of its batch was
\* a key of the partition: an unknown endpoint aborts the processing.
C8_UnknownAccountFatal == Recorded => Endpoints(transactions) \subseteq DOMAIN partition

\* the affinity graph of the current epoch has no nodes
EmptyGraphEpoch == epoch = 0 \/ workload_history[epoch - 1] = <<>>

\* C9: when the affinity graph has no nodes, CLPA, DBSRP-ML and ProShard
\* return current_partition: the partition after reconfigure equals the one
\* before it and the reconfiguration cost computed from them is 0.
C9_EmptyGraphNoOp ==
    (protocol # "Static" /\ pc \in {"cost", "process"} /\ EmptyGraphEpoch) =>
        /\ partition = old_partition
        /\ pc = "process" => reconfig_cost.num = 0

\* C9 witness: CLPA past epoch 0, the preceding epoch empty, called with a
\* partition that lacks an account, and the cost computed
C9_Witness ==
    /\ protocol = "CLPA"
    /\ pc = "process"
    /\ epoch >= 1
    /\ workload_history[epoch - 1] = <<>>
    /\ DOMAIN partition # Accounts
    /\ DOMAIN partition # {}

\* C10: processing an empty batch against any partition yields
\* avg_latency = 0, cst_ratio = 0, throughput = 0 and imbalance = 1.
C10_EmptyBatchMetrics ==
    (pc = "metrics_done" /\ transactions = <<>>) =>
        LET r == results[1]
        IN  /\ r.avg_latency.den > 0 /\ r.avg_latency.num = 0
            /\ r.cst_ratio.den > 0 /\ r.cst_ratio.num = 0
            /\ r.throughput.den > 0 /\ r.throughput.num = 0
            /\ r.imbalance.den > 0 /\ r.imbalance.num = r.imbalance.den

\* C10 witness: the empty batch was processed against a partition that lacks accounts
C10_Witness == pc = "metrics_done" /\ transactions = <<>> /\ DOMAIN partition # Accounts

\* C11: Simulator.run on a fresh Simulator terminates; it visits the epochs
\* 0 .. NUM_EPOCHS-1 strictly in order, none skipped or repeated, and the
\* list it returns has exactly NUM_EPOCHS records, the i-th with epoch = i.
\* Termination: run is sequential code, so it goes on while it has a next
\* step; it has one until it has returned (CanStep), and every step lowers
\* RunMeasure, a natural number.
EpochsInOrder ==
    /\ epoch \in 0..NUM_EPOCHS
    /\ Len(results) = epoch
    /\ \A i \in 1..Len(results) : results[i].epoch = i - 1
    /\ pc = "returned" => Len(results) = NUM_EPOCHS
CanStep ==
    CASE pc = "generate"    -> epoch = NUM_EPOCHS \/ GenerateWorkload(epoch) # {}
      [] pc = "reconfigure" -> ReconfigureOutcome(workload_history).partitions # {}
      [] pc = "cost"        -> num_accounts # 0
      [] pc = "process"     -> TRUE
      [] OTHER              -> pc = "returned"
StepsLeftInEpoch ==
    CASE pc = "generate" -> 4
      [] pc = "reconfigure" -> 3
      [] pc = "cost" -> 2
      [] pc = "process" -> 1
      [] OTHER -> 0
RunMeasure == IF pc = "returned" THEN 0 ELSE 4 * (NUM_EPOCHS - epoch) + StepsLeftInEpoch
C11_RunTerminatesInOrder ==
    /\ [](EpochsInOrder /\ CanStep /\ RunMeasure >= 0)
    /\ [][RunMeasure' < RunMeasure /\ epoch' \in {epoch, epoch + 1}]_vars
C11_Witness ==
    /\ pc = "returned"
    /\ Len(results) = NUM_EPOCHS
    /\ \A i \in 1..NUM_EPOCHS : results[i].epoch = i - 1

\* the forecast of one account (a missing entry counts 0), and the forecast
\* step 2 of _predict gives it from the historical scores alone
ForecastOf(pred, a) == GetOr(pred, a, 0)
BaselineOf(hist, a) ==
    IF a \in DOMAIN hist /\ hist[a] > PREDICTION_ACTIVITY_THRESHOLD * ActScale
    THEN hist[a] ELSE 0
SpikePredictionValue == (SPIKE_TX_COUNT * ActScale) \div NFT_CLUSTER_SIZE
\* the step is ProShard's forecast at epoch SPIKE_EPOCH - 1, one after another
OracleStep ==
    /\ protocol = "ProShard"
    /\ pc \in {"predict", "reconfigure"}
    /\ epoch = spike_epoch - 1
    /\ epoch >= 1

\* C12: under ProShard, for every NFT-cluster account and any workload
\* history, the forecast left by the call at epoch SPIKE_EPOCH - 1 is strictly
\* greater than the forecast left by the call at epoch SPIKE_EPOCH - 2.
C12_OracleRaisesForecast ==
    [][OracleStep =>
         \A a \in NFT_CLUSTER_ACCOUNTS :
             ForecastOf(predicted_activity', a) > ForecastOf(predicted_activity, a)]_vars

\* C12 as the code has it: the forecast of epoch SPIKE_EPOCH - 1 is that
\* epoch's baseline forecast plus SPIKE_TX_COUNT / NFT_CLUSTER_SIZE, and it is
\* strictly greater than the forecast of epoch SPIKE_EPOCH - 2 exactly when
\* the baseline forecast fell by less than that amount in between.
C12_OracleAddsSpikeValue ==
    [][OracleStep =>
         \A a \in NFT_CLUSTER_ACCOUNTS :
             /\ a \in DOMAIN predicted_activity'
             /\ predicted_activity'[a] = BaselineOf(historical_activity', a) + SpikePredictionValue
             /\ ForecastOf(predicted_activity, a) = BaselineOf(historical_activity, a)
             /\ (ForecastOf(predicted_activity', a) > ForecastOf(predicted_activity, a))
                  <=> (BaselineOf(historical_activity, a) - BaselineOf(historical_activity', a)
                          < SpikePredictionValue)]_vars

\* C12 witness: the call at epoch SPIKE_EPOCH - 1 has been made and left an
\* NFT-cluster account a forecast that is the injected value on top of a
\* baseline forecast
C12_Witness ==
    /\ protocol = "ProShard"
    /\ pc = "predict"
    /\ epoch = spike_epoch
    /\ \E a \in NFT_CLUSTER_ACCOUNTS :
          /\ a \in DOMAIN predicted_activity
          /\ BaselineOf(historical_activity, a) > 0
          /\ predicted_activity[a] = historical_activity[a] + SpikePredictionValue

\* C13: workload_history is append-only.  At the start of epoch e its keys
\* are exactly 0 .. e-1; epoch e adds exactly key e, holding that epoch's
\* transactions in generation order; no step of run and no reconfigure
\* changes, replaces or removes an earlier entry.
C13_HistoryAppendOnly ==
    [][/\ \A k \in DOMAIN workload_history :
             k \in DOMAIN workload_history' /\ workload_history'[k] = workload_history[k]
       /\ IF pc = "generate" /\ pc' = "reconfigure"
          THEN /\ DOMAIN workload_history = 0 .. (epoch - 1)
               /\ DOMAIN workload_history' = 0 .. epoch
               /\ workload_history'[epoch] = transactions'
          ELSE workload_history' = workload_history]_vars

\* C13 witness: a reconfigure has run on a history of two epochs with
\* different batches, and both entries are still there
C13_Witness ==
    /\ pc = "cost"
    /\ epoch = 1
    /\ protocol # "Static"
    /\ DOMAIN workload_history = 0 .. 1
    /\ workload_history[1] = transactions
    /\ workload_history[0] # workload_history[1]

\* C14: within an epoch the steps are generate, snapshot the old partition,
\* reconfigure, adopt the result, compute the reconfiguration cost, process.
\* The metrics of record e are computed against the partition reconfigure
\* returned at epoch e, and the cost of epoch e compares that partition with
\* the one in force at the end of epoch e-1 (id mod num_shards for e = 0).
C14_EpochStepOrder ==
    [][/\ pc = "generate" =>
             /\ pc' \in {"reconfigure", "returned"}
             /\ partition' = partition
             /\ epoch = 0 => partition = [a \in Accounts |-> a % num_shards]
       /\ pc = "reconfigure" =>
             /\ workload_history[epoch] = transactions
             /\ pc' = "cost"
             /\ old_partition' = partition
       /\ pc = "cost" =>
             /\ pc' = "process"
             /\ partition' = partition /\ old_partition' = old_partition
             /\ reconfig_cost' = ReconfigCost(old_partition, partition)
       /\ pc = "process" =>
             /\ pc' = "generate"
             /\ partition' = partition
             /\ results' = Append(results,
                   EpochRecord(ProcessTransactions(transactions, partition), epoch, reconfig_cost))
             /\ results'[epoch + 1].num_cst =
                   Cardinality({i \in 1..Len(transactions) :
                       Get(partition, transactions[i][1]) # Get(partition, transactions[i][2])})]_vars

\* C14 witness: an epoch after the first was recorded in which reconfigure
\* changed the partition, and the batch scores differently on the old one
C14_Witness ==
    /\ Recorded
    /\ epoch >= 2
    /\ old_partition # partition
    /\ reconfig_cost.num > 0
    /\ ProcessTransactions(transactions, old_partition).num_cst
          # ProcessTransactions(transactions, partition).num_cst

\* C15: the reconfig_cost of an epoch is 100 * (number of accounts in
\* [0, num_accounts) whose shard under the new partition differs from their
\* shard under old_partition) / num_accounts, also when one of the two
\* partitions lacks accounts: an account that has an entry in only one of
\* them counts as changed.
C15_ReconfigCostOverAccounts ==
    pc = "process" =>
        RatEq(reconfig_cost,
              Rat(100 * Cardinality({a \in Accounts :
                                        Get(partition, a) # Get(old_partition, a)}),
                  num_accounts))

\* number of transactions of a batch between u and v, in either direction
TxsBetween(txs, u, v) ==
    Cardinality({i \in 1..Len(txs) : {txs[i][1], txs[i][2]} = {u, v}})

\* C16: the graph a reactive protocol (CLPA, DBSRP-ML) builds for epoch
\* e >= 1 has as nodes exactly the endpoints of the epoch e-1 transactions,
\* and for every unordered pair {u, v} that transacted in epoch e-1 an edge
\* whose weight is the number of epoch e-1 transactions between u and v in
\* both directions together; no other pair has an edge and no other epoch
\* contributes.
C16_ReactiveGraph ==
    (pc = "reconfigure" /\ protocol \in {"CLPA", "DBSRP-ML"} /\ epoch >= 1) =>
        LET G == BuildGraphFromHistory(workload_history, epoch)
            last_epoch_txs == workload_history[epoch - 1]
        IN  /\ Nodes(G) = Endpoints(last_epoch_txs)
            /\ DOMAIN G \subseteq {{u, v} : u \in Accounts, v \in Accounts}
            /\ \A u \in Accounts, v \in Accounts :
                  IF TxsBetween(last_epoch_txs, u, v) > 0
                  THEN /\ {u, v} \in DOMAIN G
                       /\ G[{u, v}] = TxsBetween(last_epoch_txs, u, v)
                  ELSE {u, v} \notin DOMAIN G

\* C16 witness: a reactive protocol reconfigures after an epoch with one
\* transaction in each direction between two accounts, and the batch of
\* the current epoch is a different one
C16_Witness ==
    /\ pc = "reconfigure"
    /\ protocol = "DBSRP-ML"
    /\ epoch >= 1
    /\ \E u \in Accounts, v \in Accounts :
          /\ u # v
          /\ workload_history[epoch - 1] = <<<<u, v>>, <<v, u>>>>
          /\ BuildGraphFromHistory(workload_history, epoch)[{u, v}] = 2
    /\ workload_history[epoch] # workload_history[epoch - 1]

\* the forecast ProShard's reconfigure builds its graph with at this epoch
ForecastNow == Predict(workload_history, epoch).predicted_activity

\* C17: for any history, epoch and forecast, the edge set of ProShard's
\* predictive affinity graph is exactly the set of unordered account pairs
\* that transacted in epoch e-1, the edge set of the reactive graph: the
\* weight > 0 filter drops no pair and nothing adds one.
C17_PagEdgesAreReactiveEdges ==
    (pc = "reconfigure" /\ protocol = "ProShard") =>
        LET PAG == BuildPredictiveAffinityGraph(workload_history, epoch, ForecastNow)
        IN  /\ DOMAIN PAG = DOMAIN BuildGraphFromHistory(workload_history, epoch)
            /\ DOMAIN PAG =
                  IF epoch = 0 THEN {}
                  ELSE {{u, v} : <<u, v>> \in
                          {p \in Accounts \X Accounts :
                              TxsBetween(workload_history[epoch - 1], p[1], p[2]) > 0}}

\* C17 witness: ProShard reconfigures with a non-empty forecast, and a pair
\* that transacted has neither a predictive nor a semantic score
C17_Witness ==
    /\ pc = "reconfigure"
    /\ protocol = "ProShard"
    /\ epoch >= 1
    /\ DOMAIN ForecastNow # {}
    /\ \E u \in Accounts, v \in Accounts :
          /\ TxsBetween(workload_history[epoch - 1], u, v) > 0
          /\ GetOr(ForecastNow, u, 0) * GetOr(ForecastNow, v, 0) = 0
          /\ ~(u \in NFT_CLUSTER_ACCOUNTS /\ v \in NFT_CLUSTER_ACCOUNTS)
          /\ {u, v} \in DOMAIN BuildPredictiveAffinityGraph(workload_history, epoch, ForecastNow)

\* C18: after ProShard's reconfigure at epoch e, predicted_activity holds
\* account a with value historical_activity[a] iff historical_activity[a] >
\* PREDICTION_ACTIVITY_THRESHOLD, and nothing else, except that at
\* e = SPIKE_EPOCH - 1, and at no other epoch, the forecast of every
\* NFT-cluster account is SPIKE_TX_COUNT / NFT_CLUSTER_SIZE higher.  The
\* injection is gone from epoch SPIKE_EPOCH on and never happens in a run
\* with the spike disabled (SPIKE_EPOCH = -1).
C18_ForecastRebuilt ==
    [][(pc = "reconfigure" /\ protocol = "ProShard") =>
         LET injected == IF spike_epoch # -1 /\ epoch = spike_epoch - 1
                         THEN NFT_CLUSTER_ACCOUNTS ELSE {}
             above == {a \in DOMAIN historical_activity' :
                          historical_activity'[a] > PREDICTION_ACTIVITY_THRESHOLD * ActScale}
         IN  /\ DOMAIN predicted_activity' = above \cup injected
             /\ \A a \in DOMAIN predicted_activity' :
                   predicted_activity'[a] =
                       (IF a \in above THEN historical_activity'[a] ELSE 0)
                     + (IF a \in injected THEN SpikePredictionValue ELSE 0)]_vars

\* C18 witness: ProShard has reconfigured at epoch SPIKE_EPOCH; the forecast
\* is not empty, and an NFT-cluster account that the injection had put into
\* the forecast one epoch earlier has no entry any more
C18_Witness ==
    /\ pc = "cost"
    /\ protocol = "ProShard"
    /\ epoch = spike_epoch
    /\ epoch >= 1
    /\ DOMAIN predicted_activity # {}
    /\ \E a \in NFT_CLUSTER_ACCOUNTS :
          /\ a \in DOMAIN historical_activity
          /\ a \notin DOMAIN predicted_activity

\* number of times account a is an endpoint in a batch
EndpointOccurrences(txs, a) ==
    Cardinality({i \in 1..Len(txs) : txs[i][1] = a})
      + Cardinality({i \in 1..Len(txs) : txs[i][2] = a})

\* C19: ProShard's reconfigure at epoch e >= 1 sets historical_activity[a] to
\* EMA_ALPHA * activity(a) + (1 - EMA_ALPHA) * old value (0 if a was never
\* seen) for exactly the accounts that are an endpoint of an epoch e-1
\* transaction, activity(a) being the number of endpoint occurrences, and
\* leaves every other account as it was; at epoch 0 nothing changes.  So a
\* score is never negative and changes only in the epoch after one in
\* which the account transacted.
C19_EmaUpdateScope ==
    [][IF pc = "reconfigure" /\ protocol = "ProShard"
       THEN LET txs == IF epoch >= 1 THEN workload_history[epoch - 1] ELSE <<>>
            IN  /\ DOMAIN historical_activity' \subseteq Accounts
                /\ \A a \in Accounts :
                      IF EndpointOccurrences(txs, a) > 0
                      THEN /\ a \in DOMAIN historical_activity'
                           /\ EMA_DEN * historical_activity'[a] =
                                 EMA_ALPHA_NUM * EndpointOccurrences(txs, a) * ActScale
                                   + (EMA_DEN - EMA_ALPHA_NUM) * GetOr(historical_activity, a, 0)
                      ELSE /\ a \in DOMAIN historical_activity' <=> a \in DOMAIN historical_activity
                           /\ a \in DOMAIN historical_activity =>
                                 historical_activity'[a] = historical_activity[a]
                /\ \A a \in DOMAIN historical_activity' : historical_activity'[a] >= 0
       ELSE historical_activity' = historical_activity]_vars

\* C19 witness: ProShard has reconfigured after an epoch in which one scored
\* account transacted and another scored account did not
C19_Witness ==
    /\ pc = "cost"
    /\ protocol = "ProShard"
    /\ epoch >= 2
    /\ \E a \in DOMAIN historical_activity, b \in DOMAIN historical_activity :
          /\ EndpointOccurrences(workload_history[epoch - 1], a) = 0
          /\ EndpointOccurrences(workload_history[epoch - 2], a) > 0
          /\ EndpointOccurrences(workload_history[epoch - 1], b) > 0
          /\ EndpointOccurrences(workload_history[epoch - 2], b) > 0
          /\ historical_activity[a] > 0

\* C20: for every epoch and every num_accounts a Simulator is constructed
\* with, both endpoints of every generated transaction are account ids in
\* [0, num_accounts), hence keys of the initial partition; the spike epoch
\* has exactly SPIKE_TX_COUNT transactions on top of the
\* TX_PER_EPOCH_BASELINE baseline ones, every other epoch none.
C20_WorkloadInAccountSpace ==
    pc = "workload_done" =>
        /\ Endpoints(transactions) \subseteq 0 .. (num_accounts - 1)
        /\ Endpoints(transactions) \subseteq DOMAIN InitialPartition(num_shards)
        /\ Len(transactions) =
              TX_PER_EPOCH_BASELINE + (IF epoch = spike_epoch THEN SPIKE_TX_COUNT ELSE 0)

====
